---- MODULE Spec2Model ----
(***************************************************************************)
(* Model of the gelbooru-api request builders (src/src/api.rs), the shared *)
(* query_api helper and the derived accessors of the decoded records.      *)
(*                                                                         *)
(* Strings are sequences of characters, a character being a one-letter     *)
(* TLA+ string; the double quote and the backtick are written "U+0022" and *)
(* "U+0060", and a character of more than one UTF-8 byte is written by its *)
(* code point too (see MultiByteChars).  Option<T> is a sequence of length *)
(* at most one: None is << >> and Some(x) is <<x>>.  Result<T, E> is a     *)
(* record of two options, ok and err.                                      *)
(***************************************************************************)
EXTENDS Integers, Sequences, FiniteSets, TLC

(***************************************************************************)
(* Bounds of the model.                                                    *)
(***************************************************************************)
\* Number of calls made on a posts builder before the request is sent.
MaxCalls == 3
\* Number of calls made on the posts builder of lib.rs before its send.
MaxLibCalls == 2
\* Number of calls made on a tags builder before the request is sent.
MaxTagsCalls == 1
\* Number of builder calls when the client has credentials: the credentials
\* add two parameters, and the orders a HashMap can iterate in grow with the
\* factorial of its size.
MaxAuthCalls == 0
\* Number of calls running concurrently on a client without credentials, and
\* on one with credentials.
MaxTasks == 2
MaxAuthTasks == 1

(***************************************************************************)
(* Option and Result.                                                      *)
(***************************************************************************)
None == << >>
Some(x) == <<x>>
IsSome(o) == Len(o) = 1
Unwrap(o) == o[1]
UnwrapOr(o, d) == IF IsSome(o) THEN o[1] ELSE d

Ok(v) == [ok |-> <<v>>, err |-> << >>]
Err(e) == [ok |-> << >>, err |-> <<e>>]
IsOk(r) == Len(r.ok) = 1
IsErr(r) == Len(r.err) = 1

(***************************************************************************)
(* The string literals of the source.                                      *)
(***************************************************************************)
API_BASE == <<"h","t","t","p","s",":","/","/","g","e","l","b","o","o","r","u",".","c","o","m","/","i","n","d","e","x",".","p","h","p","?","p","a","g","e","=","d","a","p","i","&","q","=","i","n","d","e","x","&","j","s","o","n","=","1">>

K_s == <<"s">>
K_limit == <<"l","i","m","i","t">>
K_tags == <<"t","a","g","s">>
K_after_id == <<"a","f","t","e","r","_","i","d">>
K_orderby == <<"o","r","d","e","r","b","y">>
K_order == <<"o","r","d","e","r">>
K_name == <<"n","a","m","e">>
K_names == <<"n","a","m","e","s">>
K_name_pattern == <<"n","a","m","e","_","p","a","t","t","e","r","n">>
K_user_id == <<"u","s","e","r","_","i","d">>
K_api_key == <<"a","p","i","_","k","e","y">>

S_post == <<"p","o","s","t">>
S_tag == <<"t","a","g">>
S_rating_colon == <<"r","a","t","i","n","g",":">>
S_sort_random_plus == <<"s","o","r","t",":","r","a","n","d","o","m","+">>
S_plus == <<"+">>
S_date == <<"d","a","t","e">>
S_count == <<"c","o","u","n","t">>
S_name == <<"n","a","m","e">>
S_ASC == <<"A","S","C">>
S_DESC == <<"D","E","S","C">>

(***************************************************************************)
(* String helpers of the standard library, as they compute.                *)
(***************************************************************************)
UpperChars == <<"A","B","C","D","E","F","G","H","I","J","K","L","M","N","O","P","Q","R","S","T","U","V","W","X","Y","Z">>
LowerChars == <<"a","b","c","d","e","f","g","h","i","j","k","l","m","n","o","p","q","r","s","t","u","v","w","x","y","z">>
DigitChars == <<"0","1","2","3","4","5","6","7","8","9">>

Range(s) == {s[i] : i \in DOMAIN s}

\* char::to_lowercase on the characters the model uses.
LowerChar(c) ==
  IF \E i \in DOMAIN UpperChars : UpperChars[i] = c
  THEN LowerChars[CHOOSE i \in DOMAIN UpperChars : UpperChars[i] = c]
  ELSE c

\* str::to_lowercase
to_lowercase(s) == [i \in DOMAIN s |-> LowerChar(s[i])]

\* usize::to_string: the decimal digits, most significant first.
RECURSIVE to_string(_)
to_string(n) ==
  IF n < 10 THEN <<DigitChars[n + 1]>>
  ELSE to_string(n \div 10) \o <<DigitChars[(n % 10) + 1]>>

\* [S]::join(sep)
RECURSIVE join(_, _)
join(list, sep) ==
  IF Len(list) = 0 THEN << >>
  ELSE IF Len(list) = 1 THEN list[1]
  ELSE list[1] \o sep \o join(Tail(list), sep)

\* Concatenation of a sequence of strings (Iterator::collect::<String>).
RECURSIVE collect(_)
collect(list) ==
  IF Len(list) = 0 THEN << >> ELSE list[1] \o collect(Tail(list))

\* format!("{:?}", rating): the variant's name.
DebugRating(r) ==
  CASE r = "Safe" -> <<"S","a","f","e">>
    [] r = "Questionable" -> <<"Q","u","e","s","t","i","o","n","a","b","l","e">>
    [] r = "Explicit" -> <<"E","x","p","l","i","c","i","t">>

\* HashMap::insert: the value of an existing key is replaced.
Insert(m, k, v) == [x \in (DOMAIN m) \cup {k} |-> IF x = k THEN v ELSE m[x]]
EmptyMap == [x \in {} |-> << >>]

(***************************************************************************)
(* Inputs the calls are made with.                                         *)
(***************************************************************************)
T_hatsune_miku == <<"h","a","t","s","u","n","e","_","m","i","k","u">>
T_solo == <<"s","o","l","o">>
T_raw_rating == <<"r","a","t","i","n","g",":","s">>
T_raw_bad == <<"h","e","l","l","o","!"," ",":","D">>
T_raw_limit == <<"a","&","l","i","m","i","t","=","1">>
T_pattern == <<"%","o","_","o">>
T_key == <<"A","B","C","D","E","F">>

Limits == {5}
TagNames == {T_solo}
TagLists == {<<T_hatsune_miku, T_solo>>}
RawTags == {T_raw_rating, T_raw_bad, T_raw_limit}
Ratings == {"Safe", "Explicit"}
Orderings == {"Date", "Count", "Name"}
AfterIds == {7}
SearchNames == {T_solo}
SearchNameLists == {<< >>, <<T_hatsune_miku, T_solo, T_solo>>}
SearchPatterns == {T_pattern}
Clients == {[auth |-> None], [auth |-> Some([user |-> 42, key |-> T_key])]}

(***************************************************************************)
(* State.                                                                  *)
(***************************************************************************)
VARIABLES
  posts_builder,  \* PostsRequestBuilder: limit, tags, tags_raw, rating, sort_random
  tags_builder,   \* TagsRequestBuilder: limit, after_id, order_by, ascending
  client,         \* Client: auth
  calls,          \* the builder calls made so far, in order
  pc,             \* "builder", "get", "aggregate" or "done"
  call,           \* the sending call: api, mode and its argument
  qs_arg,         \* the parameters the builder hands to query_api
  qs,             \* the parameters after query_api has added the credentials
  uri,            \* the result of parsing the request Uri
  requests,       \* number of http_client.get calls issued
  body,           \* the response body the decoder is given
  ret,            \* what query_api returns
  result,         \* what the call returns to its caller
  stages,         \* the stages of query_api run so far, each with its outcome
  a_post,         \* a decoded Post
  a_tag,          \* a decoded Tag
  accessed,       \* the accessor called on the record, and how the call ended
  blob,           \* the query string given to AuthDetails::from_query_string, in bytes
  tasks           \* the calls running concurrently on the client, each with its locals

vars == <<posts_builder, tags_builder, client, calls, pc, call, qs_arg, qs, uri,
          requests, body, ret, result, stages, a_post, a_tag, accessed, blob, tasks>>
builderVars == <<posts_builder, tags_builder, client, calls>>
callVars == <<pc, call, qs_arg, qs, uri, requests, body, ret, result, stages>>
recordVars == <<a_post, a_tag, accessed, blob, tasks>>

\* A builder call: the method and its argument, which is a number, a string,
\* a list of strings, a flag or an enum variant according to the method.
Entry(op, num, str, list, flag, variant) ==
  [op |-> op, num |-> num, str |-> str, list |-> list, flag |-> flag,
   variant |-> variant]

NoCall == [api |-> "none", mode |-> "none", search |-> None]
NoResult == [ok |-> << >>, err |-> << >>]

(***************************************************************************)
(* PostsRequestBuilder.                                                    *)
(***************************************************************************)
\* posts(): the builder as constructed.
posts ==
  [limit |-> None, tags |-> << >>, tags_raw |-> << >>, rating |-> None,
   sort_random |-> FALSE]

Posts_limit(b, limit) == [b EXCEPT !.limit = Some(limit)]

Posts_tag(b, tag) == [b EXCEPT !.tags = Append(b.tags, tag)]

Posts_tags(b, tags) == [b EXCEPT !.tags = b.tags \o tags]

Posts_tags_raw(b, raw_tags) == [b EXCEPT !.tags_raw = raw_tags]

\* clear_tags that forgets the raw suffix.
Posts_clear_tags_keeps_raw(b) == [b EXCEPT !.tags = << >>]

Posts_clear_tags(b) == [b EXCEPT !.tags = << >>, !.tags_raw = << >>]

Posts_rating(b, rating) == [b EXCEPT !.rating = Some(rating)]

Posts_random(b, random) == [b EXCEPT !.sort_random = random]

\* send with the raw suffix pushed before the tag list.
Posts_send_tags_raw_first(b) ==
  LET t1 == IF IsSome(b.rating)
            THEN to_lowercase(S_rating_colon \o DebugRating(Unwrap(b.rating)) \o S_plus)
            ELSE << >>
      t2 == IF b.sort_random THEN t1 \o S_sort_random_plus ELSE t1
      t3 == IF b.tags_raw # << >> THEN t2 \o b.tags_raw \o S_plus ELSE t2
  IN  t3 \o join(b.tags, S_plus)

\* send, first half: the `tags` expression.
Posts_send_tags(b) ==
  LET t1 == IF IsSome(b.rating)
            THEN to_lowercase(S_rating_colon \o DebugRating(Unwrap(b.rating)) \o S_plus)
            ELSE << >>
      t2 == IF b.sort_random THEN t1 \o S_sort_random_plus ELSE t1
      t3 == t2 \o join(b.tags, S_plus)
  IN  IF b.tags_raw # << >> THEN t3 \o S_plus \o b.tags_raw ELSE t3

\* send that leaves `limit` to the server when none was set.
Posts_send_qs_no_default(b) ==
  LET q1 == Insert(EmptyMap, K_s, S_post)
      q2 == IF IsSome(b.limit) THEN Insert(q1, K_limit, to_string(Unwrap(b.limit))) ELSE q1
  IN  Insert(q2, K_tags, Posts_send_tags(b))

\* send, second half: the parameter map.
Posts_send_qs(b) ==
  LET q1 == Insert(EmptyMap, K_s, S_post)
      q2 == Insert(q1, K_limit, to_string(UnwrapOr(b.limit, 100)))
  IN  Insert(q2, K_tags, Posts_send_tags(b))

(***************************************************************************)
(* TagsRequestBuilder.                                                     *)
(***************************************************************************)
\* TagsRequestBuilder::new
Tags_new == [limit |-> None, after_id |-> None, order_by |-> None, ascending |-> None]

Tags_limit(b, limit) == [b EXCEPT !.limit = Some(limit)]

Tags_after_id(b, id) == [b EXCEPT !.after_id = Some(id)]

Tags_ascending(b, ascending) == [b EXCEPT !.ascending = Some(ascending)]

Tags_order_by(b, ordering) == [b EXCEPT !.order_by = Some(ordering)]

\* enum TagSearch, and the Option<TagSearch> that search takes.
SearchName(name) == [variant |-> "Name", str |-> name, list |-> << >>]
SearchNames_(names) == [variant |-> "Names", str |-> << >>, list |-> names]
SearchPattern(pattern) == [variant |-> "Pattern", str |-> pattern, list |-> << >>]

\* search whose default for a list of names is the server's 100.
Tags_search_limit_names_100(b, search) ==
  UnwrapOr(b.limit,
           IF IsSome(search) /\ Unwrap(search).variant = "Name" THEN 1 ELSE 100)

\* search: the limit that is sent.
Tags_search_limit(b, search) ==
  UnwrapOr(b.limit,
           IF IsSome(search) /\ Unwrap(search).variant = "Name" THEN 1
           ELSE IF IsSome(search) /\ Unwrap(search).variant = "Names"
                THEN Len(Unwrap(search).list)
           ELSE 100)

\* search: the `orderby` value of an Ordering.
Tags_search_order_by(ordering) ==
  CASE ordering = "Date" -> S_date
    [] ordering = "Count" -> S_count
    [] ordering = "Name" -> S_name

\* search with the two directions exchanged.
Tags_search_order_swapped(ascending) == IF ascending THEN S_DESC ELSE S_ASC

\* search: the `order` value of the ascending flag.
Tags_search_order(ascending) == IF ascending THEN S_ASC ELSE S_DESC

\* search that sends a pattern under `name`.
Tags_search_mode_pattern_as_name(s) ==
  CASE s.variant = "Name" -> <<K_name, s.str>>
    [] s.variant = "Names" -> <<K_names, join(s.list, S_plus)>>
    [] s.variant = "Pattern" -> <<K_name, s.str>>

\* search: the mode parameter, a pair of its name and its value.
Tags_search_mode(s) ==
  CASE s.variant = "Name" -> <<K_name, s.str>>
    [] s.variant = "Names" -> <<K_names, join(s.list, S_plus)>>
    [] s.variant = "Pattern" -> <<K_name_pattern, s.str>>

\* search: the parameter map.
Tags_search_qs(b, search) ==
  LET q1 == Insert(EmptyMap, K_s, S_tag)
      q2 == Insert(q1, K_limit, to_string(Tags_search_limit(b, search)))
      q3 == IF IsSome(b.after_id)
            THEN Insert(q2, K_after_id, to_string(Unwrap(b.after_id))) ELSE q2
      q4 == IF IsSome(b.order_by)
            THEN Insert(q3, K_orderby, Tags_search_order_by(Unwrap(b.order_by))) ELSE q3
      q5 == IF IsSome(b.ascending)
            THEN Insert(q4, K_order, Tags_search_order(Unwrap(b.ascending))) ELSE q4
  IN  IF IsSome(search)
      THEN Insert(q5, Tags_search_mode(Unwrap(search))[1], Tags_search_mode(Unwrap(search))[2])
      ELSE q5

(***************************************************************************)
(* query_api: credentials, query string, Uri.                              *)
(***************************************************************************)
\* query_api that adds the user id and forgets the key.
QueryApi_auth_no_key(c, q) ==
  IF IsSome(c.auth) THEN Insert(q, K_user_id, to_string(Unwrap(c.auth).user)) ELSE q

\* query_api: the credentials are added when the client has them.
QueryApi_auth(c, q) ==
  IF IsSome(c.auth)
  THEN Insert(Insert(q, K_user_id, to_string(Unwrap(c.auth).user)),
              K_api_key, Unwrap(c.auth).key)
  ELSE q

\* The order in which a HashMap is iterated depends on its hasher's random
\* state; each entry is one order of all the keys a map can hold.
\* The orders a HashMap with the keys S can iterate in: the order follows the
\* hashes under the random keys of the map's RandomState, so every
\* enumeration of the keys is one.
RECURSIVE Enumerations(_)
Enumerations(S) ==
  IF S = {} THEN {<< >>}
  ELSE UNION {{<<k>> \o e : e \in Enumerations(S \ {k})} : k \in S}

\* qs.iter(): the keys of the map in one of the orders of its hasher.
HashOrders(q) == Enumerations(DOMAIN q)

\* query_api: "&{}={}" for every entry, collected into one string.
QueryApi_query_string(q, order) ==
  collect([i \in DOMAIN order |-> <<"&">> \o order[i] \o <<"=">> \o q[order[i]]])

\* The bytes http::Uri accepts unencoded in a path and in a query.
AlnumChars == Range(UpperChars) \cup Range(LowerChars) \cup Range(DigitChars)
PathChars ==
  AlnumChars \cup {"!", "$", "%", "&", "'", "(", ")", "*", "+", ",", "-", ".", "/",
                   ":", ";", "=", "@", "[", "\\", "]", "^", "_", "|", "~", "U+0022",
                   "{", "}"}
QueryChars ==
  AlnumChars \cup {"!", "$", "%", "&", "'", "(", ")", "*", "+", ",", "-", ".", "/",
                   ":", ";", "=", "?", "@", "[", "\\", "]", "^", "_", "U+0060", "{", "|",
                   "}", "~"}

\* Index of the first character of s at or after `from` that is in C, or 0.
FirstIn(s, C, from) ==
  IF \E i \in from..Len(s) : s[i] \in C
  THEN CHOOSE i \in from..Len(s) : s[i] \in C /\ \A j \in from..(i - 1) : s[j] \notin C
  ELSE 0

\* The longest string http::Uri parses, in bytes: a longer one is InvalidUri.
\* Characters that take more than one byte in UTF-8.
MultiByteChars == {"U+00E9"}

\* str::len: the length of a string in bytes.
len(s) == Len(s) + Cardinality({i \in DOMAIN s : s[i] \in MultiByteChars})

\* http::Uri: the longest string parsed, in bytes.
MAX_LEN == 65534

\* str::parse::<hyper::Uri>: the path runs to the first `?` or `#`, the query
\* from the `?` to the first `#`; a byte outside the accepted sets before the
\* fragment is an InvalidUri error, and the fragment is dropped unread.
ParseUri(s) ==
  LET p == FirstIn(s, {"?", "#"}, 1)
      pathEnd == IF p = 0 THEN Len(s) ELSE p - 1
      hasQuery == p # 0 /\ s[p] = "?"
      f == IF p = 0 THEN 0 ELSE IF hasQuery THEN FirstIn(s, {"#"}, p + 1) ELSE p
      end == IF f = 0 THEN Len(s) ELSE f - 1
  IN  IF /\ Len(s) > 0
         /\ len(s) <= MAX_LEN
         /\ \A i \in 1..pathEnd : s[i] \in PathChars
         /\ hasQuery => \A i \in (p + 1)..end : s[i] \in QueryChars
      THEN Ok(SubSeq(s, 1, end))
      ELSE Err("UriParse")

\* query_api that takes the assembled string as the Uri without parsing it.
QueryApi_uri_unchecked(q, order) == Ok(API_BASE \o QueryApi_query_string(q, order))

\* query_api: the Uri of the request.
QueryApi_uri(q, order) == ParseUri(API_BASE \o QueryApi_query_string(q, order))

(***************************************************************************)
(* The response body and its decoding (serde_json::from_reader into the    *)
(* derived Deserialize of PostQuery and TagQuery).  A body is either not   *)
(* JSON at all or a JSON value; the structs are decoded from JSON objects, *)
(* whose unknown keys are ignored.                                         *)
(***************************************************************************)
NotJson == [invalid |-> TRUE]
JNull == [null |-> TRUE]
JNum(n) == [num |-> n]
JStr(s) == [str |-> s]
JArr(a) == [arr |-> a]
JObj(o) == [obj |-> o]

IsUnsigned(j) == "num" \in DOMAIN j /\ j.num >= 0
IsString(j) == "str" \in DOMAIN j
IsObject(j) == "obj" \in DOMAIN j
IsArray(j) == "arr" \in DOMAIN j

\* A derived Deserialize reads a struct from a JSON object, by key, or from a
\* JSON array, the elements being the fields in the order of declaration: an
\* array longer than the struct is an error, and in a shorter one the fields
\* left over are missing.  StructFields gives the fields found, by name.
StructFields(j, order) ==
  IF IsObject(j) THEN Some(j.obj)
  ELSE IF IsArray(j) /\ Len(j.arr) <= Len(order)
       THEN Some([k \in {order[i] : i \in 1..Len(j.arr)} |->
                    j.arr[CHOOSE i \in 1..Len(j.arr) : order[i] = k]])
       ELSE None

\* The fields of the structs, in the order of declaration.
AttributesOrder == <<"limit", "offset", "count">>
PostOrder ==
  <<"source", "directory", "height", "id", "image", "change", "owner", "parent_id",
    "rating", "sample", "preview_height", "preview_width", "sample_height",
    "sample_width", "score", "tags", "title", "width", "file_url", "created_at",
    "post_locked">>
TagOrder == <<"id", "tag", "count", "type", "ambiguous">>
PostQueryOrder == <<"@attributes", "post">>
TagQueryOrder == <<"@attributes", "tag">>

\* struct Attributes
Deserialize_Attributes(j) ==
  LET f == StructFields(j, AttributesOrder)
  IN  IF /\ IsSome(f)
         /\ \A k \in {"limit", "offset", "count"} :
              k \in DOMAIN Unwrap(f) /\ IsUnsigned(Unwrap(f)[k])
      THEN Some([limit |-> Unwrap(f)["limit"].num, offset |-> Unwrap(f)["offset"].num,
                 count |-> Unwrap(f)["count"].num])
      ELSE None

\* struct Post: the u64 fields, the String fields and the Option<u64> field.
PostU64Fields ==
  {"height", "id", "change", "sample", "preview_height", "preview_width",
   "sample_height", "sample_width", "score", "width", "post_locked"}
PostStringFields ==
  {"source", "directory", "image", "owner", "rating", "tags", "title", "file_url",
   "created_at"}
PostFields == PostU64Fields \cup PostStringFields \cup {"parent_id"}

Deserialize_Post(j) ==
  LET f == StructFields(j, PostOrder)
      o == Unwrap(f)
  IN  IF /\ IsSome(f)
         /\ \A k \in PostU64Fields : k \in DOMAIN o /\ IsUnsigned(o[k])
         /\ \A k \in PostStringFields : k \in DOMAIN o /\ IsString(o[k])
         /\ "parent_id" \in DOMAIN o =>
              ("null" \in DOMAIN o["parent_id"] \/ IsUnsigned(o["parent_id"]))
      THEN Some([k \in PostFields |->
                   IF k \in PostU64Fields THEN o[k].num
                   ELSE IF k \in PostStringFields THEN o[k].str
                   ELSE IF "parent_id" \in DOMAIN o /\ IsUnsigned(o["parent_id"])
                        THEN Some(o["parent_id"].num)
                        ELSE None])
      ELSE None

\* struct Tag: five String fields.
TagFields == {"id", "tag", "count", "type", "ambiguous"}

Deserialize_Tag(j) ==
  LET f == StructFields(j, TagOrder)
  IN  IF /\ IsSome(f)
         /\ \A k \in TagFields : k \in DOMAIN Unwrap(f) /\ IsString(Unwrap(f)[k])
      THEN Some([k \in TagFields |-> Unwrap(f)[k].str])
      ELSE None

\* struct PostQuery without the default on `post`: the key is required.
Deserialize_PostQuery_post_required(j) ==
  LET f == StructFields(j, PostQueryOrder)
      o == Unwrap(f)
  IN  IF /\ IsSome(f)
         /\ "@attributes" \in DOMAIN o
         /\ IsSome(Deserialize_Attributes(o["@attributes"]))
         /\ "post" \in DOMAIN o
         /\ IsArray(o["post"])
         /\ \A i \in DOMAIN o["post"].arr : IsSome(Deserialize_Post(o["post"].arr[i]))
      THEN Ok([attributes |-> Unwrap(Deserialize_Attributes(o["@attributes"])),
               posts |-> [i \in DOMAIN o["post"].arr |-> Unwrap(Deserialize_Post(o["post"].arr[i]))]])
      ELSE Err("JsonDeserialize")

\* struct PostQuery: `post` defaults to Vec::new when the key is absent.
Deserialize_PostQuery(j) ==
  LET f == StructFields(j, PostQueryOrder)
      o == Unwrap(f)
  IN  IF /\ IsSome(f)
         /\ "@attributes" \in DOMAIN o
         /\ IsSome(Deserialize_Attributes(o["@attributes"]))
         /\ "post" \in DOMAIN o =>
              /\ IsArray(o["post"])
              /\ \A i \in DOMAIN o["post"].arr : IsSome(Deserialize_Post(o["post"].arr[i]))
      THEN Ok([attributes |-> Unwrap(Deserialize_Attributes(o["@attributes"])),
               posts |-> IF "post" \in DOMAIN o THEN [i \in DOMAIN o["post"].arr |-> Unwrap(Deserialize_Post(o["post"].arr[i]))] ELSE << >>])
      ELSE Err("JsonDeserialize")

\* struct TagQuery: `tag` defaults to Vec::new when the key is absent.
Deserialize_TagQuery(j) ==
  LET f == StructFields(j, TagQueryOrder)
      o == Unwrap(f)
  IN  IF /\ IsSome(f)
         /\ "@attributes" \in DOMAIN o
         /\ IsSome(Deserialize_Attributes(o["@attributes"]))
         /\ "tag" \in DOMAIN o =>
              /\ IsArray(o["tag"])
              /\ \A i \in DOMAIN o["tag"].arr : IsSome(Deserialize_Tag(o["tag"].arr[i]))
      THEN Ok([attributes |-> Unwrap(Deserialize_Attributes(o["@attributes"])),
               tags |-> IF "tag" \in DOMAIN o THEN [i \in DOMAIN o["tag"].arr |-> Unwrap(Deserialize_Tag(o["tag"].arr[i]))] ELSE << >>])
      ELSE Err("JsonDeserialize")

\* query_api: the body decoded into the envelope type of the call.
from_reader(api, b) ==
  IF api = "posts" THEN Deserialize_PostQuery(b) ELSE Deserialize_TagQuery(b)

(***************************************************************************)
(* Bodies the service answers with.                                        *)
(***************************************************************************)
AttributesJson(limit, offset, count) ==
  JObj([k \in {"limit", "offset", "count"} |->
          IF k = "limit" THEN JNum(limit) ELSE IF k = "offset" THEN JNum(offset)
          ELSE JNum(count)])

PostJson(id, rating) ==
  JObj([k \in PostFields |->
          IF k = "id" THEN JNum(id)
          ELSE IF k \in PostU64Fields THEN JNum(1)
          ELSE IF k = "rating" THEN JStr(rating)
          ELSE IF k = "tags" THEN JStr(T_solo)
          ELSE IF k = "parent_id" THEN JNull
          ELSE JStr(<<"x">>)])

TagJson(id, tag, type, ambiguous) ==
  JObj([k \in TagFields |->
          IF k = "id" THEN id
          ELSE IF k = "tag" THEN JStr(tag)
          ELSE IF k = "count" THEN JStr(<<"9">>)
          ELSE IF k = "type" THEN JStr(type)
          ELSE JStr(ambiguous)])

TagJson1 == TagJson(JStr(<<"1">>), T_solo, <<"t","a","g">>, <<"0">>)
TagJson2 == TagJson(JStr(<<"2">>), T_hatsune_miku, <<"c","h","a","r","a","c","t","e","r">>, <<"0">>)
\* A record whose id is a number and not a string.
TagJsonBad == TagJson(JNum(3), T_solo, <<"t","a","g">>, <<"0">>)

PostBodies ==
  << NotJson,
     JObj("@attributes" :> AttributesJson(100, 0, 0)),
     JObj(("@attributes" :> AttributesJson(100, 0, 1)) @@
          ("post" :> JArr(<<PostJson(1, <<"s">>)>>))),
     JObj(("@attributes" :> AttributesJson(100, 0, 2)) @@
          ("post" :> JArr(<<PostJson(1, <<"s">>), JObj("id" :> JNum(2))>>))),
     JArr(<<AttributesJson(100, 0, 0)>>) >>

TagBodies ==
  << NotJson,
     JObj("@attributes" :> AttributesJson(100, 0, 0)),
     JObj(("@attributes" :> AttributesJson(100, 0, 0)) @@ ("tag" :> JArr(<< >>))),
     JObj(("@attributes" :> AttributesJson(100, 0, 1)) @@ ("tag" :> JArr(<<TagJson1>>))),
     JObj(("@attributes" :> AttributesJson(100, 0, 2)) @@
          ("tag" :> JArr(<<TagJson2, TagJson1>>))),
     JObj(("@attributes" :> AttributesJson(100, 0, 2)) @@
          ("tag" :> JArr(<<TagJson1, TagJsonBad>>))),
     JObj("tag" :> JArr(<<TagJson1>>)),
     JArr(<<AttributesJson(100, 0, 1), JArr(<<TagJson1>>)>>) >>

Bodies(api) == IF api = "posts" THEN PostBodies ELSE TagBodies

(***************************************************************************)
(* The crate root (lib.rs) keeps an earlier PostsRequestBuilder beside the *)
(* one of api.rs.  Its builder methods are the same; its send assembles    *)
(* the Uri itself and decodes the body as a bare list of posts.            *)
(***************************************************************************)
\* lib.rs API_BASE: the base of api.rs followed by `&s=`.
LIB_API_BASE == API_BASE \o <<"&","s","=">>

\* lib.rs send, first half: the `tags` expression.
Lib_send_tags(b) ==
  LET t1 == IF IsSome(b.rating)
            THEN to_lowercase(S_rating_colon \o DebugRating(Unwrap(b.rating)) \o S_plus)
            ELSE << >>
      t2 == IF b.sort_random THEN t1 \o S_sort_random_plus ELSE t1
      t3 == t2 \o join(b.tags, S_plus)
  IN  IF b.tags_raw # << >> THEN t3 \o S_plus \o b.tags_raw ELSE t3

\* lib.rs send: query_map, with the credentials when the client has them.
Lib_send_query_map(c, b) ==
  LET q == Insert(Insert(EmptyMap, K_limit, to_string(UnwrapOr(b.limit, 100))),
                  K_tags, Lib_send_tags(b))
  IN  IF IsSome(c.auth)
      THEN Insert(Insert(q, K_user_id, to_string(Unwrap(c.auth).user)),
                  K_api_key, Unwrap(c.auth).key)
      ELSE q

\* lib.rs send: the Uri of the request, "{}post&{}" with "{}={}&" for every
\* entry of the map.
Lib_send_uri(q, order) ==
  ParseUri(LIB_API_BASE \o S_post \o <<"&">>
           \o collect([i \in DOMAIN order |->
                         order[i] \o <<"=">> \o q[order[i]] \o <<"&">>]))

\* serde_json::from_reader::<Vec<Post>>: a JSON array whose every element
\* is a Post.
Deserialize_VecPost(j) ==
  IF IsArray(j) /\ \A i \in DOMAIN j.arr : IsSome(Deserialize_Post(j.arr[i]))
  THEN Ok([i \in DOMAIN j.arr |-> Unwrap(Deserialize_Post(j.arr[i]))])
  ELSE Err("JsonDeserialize")

\* Bodies answered to lib.rs send: no JSON, an envelope, a list of one post,
\* a list whose second record lacks fields, and the empty list.
LibPostBodies ==
  << NotJson,
     PostBodies[3],
     JArr(<<PostJson(1, <<"s">>)>>),
     JArr(<<PostJson(1, <<"s">>), JObj("id" :> JNum(2))>>),
     JArr(<< >>) >>

(***************************************************************************)
(* Derived accessors of the decoded records.  A call either returns a      *)
(* value or panics.                                                        *)
(***************************************************************************)
Returned(v) == [kind |-> "return", val |-> <<v>>]
Panicked == [kind |-> "panic", val |-> << >>]
NotCalled == [kind |-> "none", val |-> << >>]


\* &s[0..1]: Some(the first byte as a str), or None where the slice panics
\* (the string is empty, or byte 1 is inside its first character).
Slice_0_1(s) ==
  IF Len(s) = 0 \/ s[1] \in MultiByteChars THEN None ELSE Some(<<s[1]>>)

\* #[derive(PartialOrd, Ord)] on Rating and TagType: the variants compare by
\* their position in the declaration.
Rating_variants == <<"Safe", "Questionable", "Explicit">>
TagType_variants == <<"Artist", "Character", "Copyright", "Deprecated", "Metadata", "Tag">>
Discriminant(variants, v) == CHOOSE i \in 1..Len(variants) : variants[i] = v
Rating_lt(a, b) == Discriminant(Rating_variants, a) < Discriminant(Rating_variants, b)

\* Post::rating with the arms of q and e exchanged.
Post_rating_q_e_exchanged(p) ==
  LET c == Slice_0_1(p["rating"])
  IN  IF ~IsSome(c) THEN Panicked
      ELSE IF Unwrap(c) = <<"s">> THEN Returned("Safe")
      ELSE IF Unwrap(c) = <<"q">> THEN Returned("Explicit")
      ELSE IF Unwrap(c) = <<"e">> THEN Returned("Questionable")
      ELSE Panicked

\* Post::rating
Post_rating(p) ==
  LET c == Slice_0_1(p["rating"])
  IN  IF ~IsSome(c) THEN Panicked
      ELSE IF Unwrap(c) = <<"s">> THEN Returned("Safe")
      ELSE IF Unwrap(c) = <<"q">> THEN Returned("Questionable")
      ELSE IF Unwrap(c) = <<"e">> THEN Returned("Explicit")
      ELSE Panicked

\* Tag::tag_type with the metadata arm returning Tag.
Tag_tag_type_metadata_as_tag(t) ==
  LET r == t["type"]
  IN  IF r = <<"a","r","t","i","s","t">> THEN Returned("Artist")
      ELSE IF r = <<"c","h","a","r","a","c","t","e","r">> THEN Returned("Character")
      ELSE IF r = <<"c","o","p","y","r","i","g","h","t">> THEN Returned("Copyright")
      ELSE IF r = <<"d","e","p","r","e","c","a","t","e","d">> THEN Returned("Deprecated")
      ELSE IF r = <<"m","e","t","a","d","a","t","a">> THEN Returned("Tag")
      ELSE IF r = <<"t","a","g">> THEN Returned("Tag")
      ELSE Panicked

\* Tag::tag_type
Tag_tag_type(t) ==
  LET r == t["type"]
  IN  IF r = <<"a","r","t","i","s","t">> THEN Returned("Artist")
      ELSE IF r = <<"c","h","a","r","a","c","t","e","r">> THEN Returned("Character")
      ELSE IF r = <<"c","o","p","y","r","i","g","h","t">> THEN Returned("Copyright")
      ELSE IF r = <<"d","e","p","r","e","c","a","t","e","d">> THEN Returned("Deprecated")
      ELSE IF r = <<"m","e","t","a","d","a","t","a">> THEN Returned("Metadata")
      ELSE IF r = <<"t","a","g">> THEN Returned("Tag")
      ELSE Panicked

\* Tag::ambigious comparing the flag as a number: every string of zeros is 0.
Tag_ambigious_numeric(t) ==
  IF Len(t["ambiguous"]) > 0 /\ \A i \in 1..Len(t["ambiguous"]) : t["ambiguous"][i] = "0"
  THEN Returned(FALSE) ELSE Returned(TRUE)

\* Tag::ambigious
Tag_ambigious(t) == IF t["ambiguous"] = <<"0">> THEN Returned(FALSE) ELSE Returned(TRUE)

(***************************************************************************)
(* AuthDetails::from_query_string (src/src/lib.rs).  The query string is a *)
(* sequence of bytes: a character of more than one byte is its code point  *)
(* followed by "cont" for each further byte.                               *)
(***************************************************************************)
S_user_id_marker == <<"&","u","s","e","r","_","i","d","=">>
usize_MAX == <<"1","8","4","4","6","7","4","4","0","7","3","7","0","9","5","5","1","6","1","5">>

IsCharBoundary(b, i) == i = 0 \/ i = Len(b) \/ (i < Len(b) /\ b[i + 1] # "cont")

\* &b[from..to]: None where the slice panics.
Slice(b, from, to) ==
  IF from <= to /\ to <= Len(b) /\ IsCharBoundary(b, from) /\ IsCharBoundary(b, to)
  THEN Some(SubSeq(b, from + 1, to)) ELSE None

\* str::find: the byte offset of the first occurrence.
find(b, pat) ==
  LET hits == {i \in 0..(Len(b) - Len(pat)) : SubSeq(b, i + 1, i + Len(pat)) = pat}
  IN  IF hits = {} THEN None ELSE Some(CHOOSE i \in hits : \A j \in hits : i <= j)

DigitValue(c) == CHOOSE d \in 0..9 : to_string(d) = <<c>>

RECURSIVE StripZeros(_)
StripZeros(ds) == IF Len(ds) > 1 /\ ds[1] = "0" THEN StripZeros(Tail(ds)) ELSE ds

RECURSIVE DigitsLess(_, _)
\* a < b for two digit strings of one length.
DigitsLess(a, b) ==
  IF Len(a) = 0 THEN FALSE
  ELSE IF a[1] # b[1] THEN DigitValue(a[1]) < DigitValue(b[1])
  ELSE DigitsLess(Tail(a), Tail(b))

RECURSIVE DigitsValue(_)
DigitsValue(ds) ==
  IF Len(ds) = 0 THEN 0 ELSE 10 * DigitsValue(SubSeq(ds, 1, Len(ds) - 1)) + DigitValue(ds[Len(ds)])

\* str::parse::<usize>: an optional + and then one or more digits, the value at
\* most usize::MAX.
parse_usize(b) ==
  LET ds == IF Len(b) > 0 /\ b[1] = "+" THEN Tail(b) ELSE b
      sig == StripZeros(ds)
  IN  IF Len(b) = 0 THEN Err("Empty")
      ELSE IF Len(ds) = 0 \/ \E i \in 1..Len(ds) : ds[i] \notin Range(DigitChars) THEN Err("InvalidDigit")
      ELSE IF Len(sig) > Len(usize_MAX) \/ (Len(sig) = Len(usize_MAX) /\ DigitsLess(usize_MAX, sig))
           THEN Err("PosOverflow")
      ELSE Ok(DigitsValue(sig))

\* AuthDetails::from_query_string taking the key from byte 0.
from_query_string_key_from_start(b) ==
  LET user_start == find(b, S_user_id_marker)
  IN  IF ~IsSome(user_start) THEN Returned(Err("ParseAuth"))
      ELSE LET user_raw == Slice(b, Unwrap(user_start) + 9, Len(b))
               user == parse_usize(Unwrap(user_raw))
               key == Slice(b, 0, Unwrap(user_start))
           IN  IF ~IsSome(user_raw) THEN Panicked
               ELSE IF IsErr(user) THEN Returned(Err("ParseUserId"))
               ELSE IF ~IsSome(key) THEN Panicked
               ELSE Returned(Ok([user |-> Unwrap(user.ok), key |-> Unwrap(key)]))

\* AuthDetails::from_query_string
from_query_string(b) ==
  LET user_start == find(b, S_user_id_marker)
  IN  IF ~IsSome(user_start) THEN Returned(Err("ParseAuth"))
      ELSE LET user_raw == Slice(b, Unwrap(user_start) + 9, Len(b))
               user == parse_usize(Unwrap(user_raw))
               key == Slice(b, 9, Unwrap(user_start))
           IN  IF ~IsSome(user_raw) THEN Panicked
               ELSE IF IsErr(user) THEN Returned(Err("ParseUserId"))
               ELSE IF ~IsSome(key) THEN Panicked
               ELSE Returned(Ok([user |-> Unwrap(user.ok), key |-> Unwrap(key)]))

\* Query strings given to the parser.
B_spec_example == <<"A","B","C","D","E","F","&","u","s","e","r","_","i","d","=","4","2">>
B_page == <<"&","a","p","i","_","k","e","y","=","A","B","C","D","E","F","&","u","s","e","r","_","i","d","=","4","2">>
B_no_marker == <<"&","a","p","i","_","k","e","y","=","A","B","C","D","E","F">>
B_no_digits == <<"&","a","p","i","_","k","e","y","=","A","B","C","D","E","F","&","u","s","e","r","_","i","d","=">>
B_not_decimal == <<"&","a","p","i","_","k","e","y","=","K","&","u","s","e","r","_","i","d","=","4","x">>
B_marker_first == <<"&","u","s","e","r","_","i","d","=","7">>
B_empty == << >>
B_empty_key == <<"&","a","p","i","_","k","e","y","=","&","u","s","e","r","_","i","d","=","4","2">>
B_multibyte == <<"&","a","p","i","_","k","e","y","U+00E9","cont","K","&","u","s","e","r","_","i","d","=","1">>
B_plus == <<"&","a","p","i","_","k","e","y","=","K","&","u","s","e","r","_","i","d","=","+","5">>
B_minus == <<"&","a","p","i","_","k","e","y","=","K","&","u","s","e","r","_","i","d","=","-","5">>
B_overflow == <<"&","a","p","i","_","k","e","y","=","K","&","u","s","e","r","_","i","d","=","9","9","9","9","9","9","9","9","9","9","9","9","9","9","9","9","9","9","9","9">>
B_zeros == <<"&","a","p","i","_","k","e","y","=","K","&","u","s","e","r","_","i","d","=","0","0","7">>
B_two_markers == <<"&","a","p","i","_","k","e","y","=","K","&","u","s","e","r","_","i","d","=","1","&","u","s","e","r","_","i","d","=","2">>
Blobs ==
  {B_spec_example, B_page, B_no_marker, B_no_digits, B_not_decimal, B_marker_first, B_empty, B_empty_key, B_multibyte, B_plus, B_minus, B_overflow, B_zeros, B_two_markers}

\* Raw values a decoded record can hold.
RawRatings ==
  {<<"s">>, <<"q">>, <<"e">>, << >>, <<"s","a","f","e">>, <<"e","x","p","l","i","c","i","t">>,
   <<"g","e","n","e","r","a","l">>, <<"S">>, <<"U+00E9">>}
RawTagTypes ==
  {<<"a","r","t","i","s","t">>, <<"c","h","a","r","a","c","t","e","r">>,
   <<"c","o","p","y","r","i","g","h","t">>, <<"d","e","p","r","e","c","a","t","e","d">>,
   <<"m","e","t","a","d","a","t","a">>, <<"t","a","g">>, << >>, <<"T","a","g">>,
   <<"t","a","g","s">>}
RawAmbiguous == {<<"0">>, <<"1">>, <<"2">>, << >>, <<"0","0">>, <<" ","0">>}

SamplePost(rating) == Unwrap(Deserialize_Post(PostJson(1, rating)))
SampleTag(type, ambiguous) ==
  Unwrap(Deserialize_Tag(TagJson(JStr(<<"1">>), T_solo, type, ambiguous)))

(***************************************************************************)
(* The state machine.                                                      *)
(***************************************************************************)
Init ==
  /\ posts_builder = posts
  /\ tags_builder = Tags_new
  /\ client \in Clients
  /\ calls = << >>
  /\ pc = "builder"
  /\ call = NoCall
  /\ qs_arg = EmptyMap
  /\ qs = EmptyMap
  /\ uri = NoResult
  /\ requests = 0
  /\ body = None
  /\ ret = NoResult
  /\ result = NoResult
  /\ stages = << >>
  /\ a_post = SamplePost(<<"s">>)
  /\ a_tag = SampleTag(<<"t","a","g">>, <<"0">>)
  /\ accessed = [name |-> "none", out |-> NotCalled]
  /\ blob = << >>
  /\ tasks = << >>

\* A builder call can be made until the request is sent, up to the bound.
CanBuild(max) ==
  pc = "builder" /\ Len(calls) < (IF IsSome(client.auth) THEN MaxAuthCalls ELSE max)

\* One builder call on the posts builder: the new builder and the log entry.
PostsCall(b, e) ==
  /\ CanBuild(MaxCalls)
  /\ posts_builder' = b
  /\ calls' = Append(calls, e)
  /\ UNCHANGED <<tags_builder, client, callVars, recordVars>>

PostsLimit ==
  \E n \in Limits :
    PostsCall(Posts_limit(posts_builder, n), Entry("limit", n, << >>, << >>, FALSE, ""))

PostsTag ==
  \E t \in TagNames :
    PostsCall(Posts_tag(posts_builder, t), Entry("tag", 0, t, << >>, FALSE, ""))

PostsTags ==
  \E l \in TagLists :
    PostsCall(Posts_tags(posts_builder, l), Entry("tags", 0, << >>, l, FALSE, ""))

PostsTagsRaw ==
  \E r \in RawTags :
    PostsCall(Posts_tags_raw(posts_builder, r), Entry("tags_raw", 0, r, << >>, FALSE, ""))

PostsClearTags ==
  PostsCall(Posts_clear_tags(posts_builder), Entry("clear_tags", 0, << >>, << >>, FALSE, ""))

PostsRating ==
  \E r \in Ratings :
    PostsCall(Posts_rating(posts_builder, r),
              Entry("rating", 0, << >>, << >>, FALSE, r))

PostsRandom ==
  \E x \in BOOLEAN :
    PostsCall(Posts_random(posts_builder, x), Entry("random", 0, << >>, << >>, x, ""))

\* One builder call on the tags builder.
TagsCall(b, e) ==
  /\ CanBuild(MaxTagsCalls)
  /\ tags_builder' = b
  /\ calls' = Append(calls, e)
  /\ UNCHANGED <<posts_builder, client, callVars, recordVars>>

TagsLimit ==
  \E n \in Limits :
    TagsCall(Tags_limit(tags_builder, n), Entry("limit", n, << >>, << >>, FALSE, ""))

TagsAfterId ==
  \E n \in AfterIds :
    TagsCall(Tags_after_id(tags_builder, n), Entry("after_id", n, << >>, << >>, FALSE, ""))

TagsAscending ==
  \E x \in BOOLEAN :
    TagsCall(Tags_ascending(tags_builder, x), Entry("ascending", 0, << >>, << >>, x, ""))

TagsOrderBy ==
  \E o \in Orderings :
    TagsCall(Tags_order_by(tags_builder, o),
             Entry("order_by", 0, << >>, << >>, FALSE, o))

\* The last item instead of the first.
IterNext_last(v) == IF Len(v) = 0 THEN None ELSE Some(v[Len(v)])

\* Iterator::next on the decoded items.
IterNext(v) == IF Len(v) = 0 THEN None ELSE Some(v[1])

\* TagsRequestBuilder::name: the first tag of a successful search.
Tags_name_map(r) == IF IsOk(r) THEN Ok(IterNext(Unwrap(r.ok).tags)) ELSE r

\* What the call returns to its caller, given what query_api returned.
Return(c, r) == IF c.mode = "name" THEN Tags_name_map(r) ELSE r

\* query_api up to its first await: the credentials are added, the Uri is
\* built and parsed, and the request is issued unless the parse failed.
QueryApiStart(c, a) ==
  /\ pc = "builder"
  /\ \E order \in HashOrders(QueryApi_auth(client, a)) :
    LET q == QueryApi_auth(client, a)
        u == QueryApi_uri(q, order)
    IN  /\ call' = c
        /\ qs_arg' = a
        /\ qs' = q
        /\ uri' = u
        /\ stages' = <<[stage |-> "uri", ok |-> IsOk(u)]>>
        /\ IF IsOk(u)
           THEN /\ pc' = "get"
                /\ requests' = requests + 1
                /\ ret' = NoResult
                /\ result' = NoResult
           ELSE /\ pc' = "done"
                /\ requests' = requests
                /\ ret' = Err("UriParse")
                /\ result' = Return(c, Err("UriParse"))
        /\ UNCHANGED <<builderVars, body, recordVars>>

\* lib.rs PostsRequestBuilder::send up to its first await.
LibPostsSend ==
  /\ pc = "builder"
  /\ Len(calls) <= MaxLibCalls
  /\ \E order \in HashOrders(Lib_send_query_map(client, posts_builder)) :
    LET a == Lib_send_query_map([auth |-> None], posts_builder)
        q == Lib_send_query_map(client, posts_builder)
        u == Lib_send_uri(q, order)
    IN  /\ call' = [api |-> "lib_posts", mode |-> "send", search |-> None]
        /\ qs_arg' = a
        /\ qs' = q
        /\ uri' = u
        /\ stages' = <<[stage |-> "uri", ok |-> IsOk(u)]>>
        /\ IF IsOk(u)
           THEN /\ pc' = "get"
                /\ requests' = requests + 1
                /\ ret' = NoResult
                /\ result' = NoResult
           ELSE /\ pc' = "done"
                /\ requests' = requests
                /\ ret' = Err("UriParse")
                /\ result' = Err("UriParse")
        /\ UNCHANGED <<builderVars, body, recordVars>>

\* lib.rs send: http_client.get(uri).await fails.
LibGetFails ==
  /\ pc = "get" /\ call.api = "lib_posts"
  /\ stages' = Append(stages, [stage |-> "get", ok |-> FALSE])
  /\ ret' = Err("Request")
  /\ result' = Err("Request")
  /\ pc' = "done"
  /\ UNCHANGED <<builderVars, call, qs_arg, qs, uri, requests, body, recordVars>>

\* lib.rs send: http_client.get(uri).await answers with a response.
LibGetResponds ==
  /\ pc = "get" /\ call.api = "lib_posts"
  /\ pc' = "aggregate"
  /\ stages' = Append(stages, [stage |-> "get", ok |-> TRUE])
  /\ UNCHANGED <<builderVars, call, qs_arg, qs, uri, requests, body, ret, result,
                 recordVars>>

\* lib.rs send: hyper::body::aggregate(res).await fails.
LibAggregateFails ==
  /\ pc = "aggregate" /\ call.api = "lib_posts"
  /\ stages' = Append(stages, [stage |-> "aggregate", ok |-> FALSE])
  /\ ret' = Err("Request")
  /\ result' = Err("Request")
  /\ pc' = "done"
  /\ UNCHANGED <<builderVars, call, qs_arg, qs, uri, requests, body, recordVars>>

\* lib.rs send: the body is read and decoded as a list of posts.
LibAggregateResponds ==
  /\ pc = "aggregate" /\ call.api = "lib_posts"
  /\ \E i \in DOMAIN LibPostBodies :
       /\ body' = Some(LibPostBodies[i])
       /\ stages' = stages \o <<[stage |-> "aggregate", ok |-> TRUE],
                                 [stage |-> "decode",
                                  ok |-> IsOk(Deserialize_VecPost(LibPostBodies[i]))]>>
       /\ ret' = Deserialize_VecPost(LibPostBodies[i])
       /\ result' = Deserialize_VecPost(LibPostBodies[i])
       /\ pc' = "done"
  /\ UNCHANGED <<builderVars, call, qs_arg, qs, uri, requests, recordVars>>

\* PostsRequestBuilder::send
PostsSend ==
  QueryApiStart([api |-> "posts", mode |-> "send", search |-> None],
                Posts_send_qs(posts_builder))

\* TagsRequestBuilder::search, called by send, name, names and pattern.
TagsSearch(mode, search) ==
  QueryApiStart([api |-> "tags", mode |-> mode, search |-> search],
                Tags_search_qs(tags_builder, search))

TagsSend == TagsSearch("send", None)

TagsName == \E n \in SearchNames : TagsSearch("name", Some(SearchName(n)))

TagsNames == \E l \in SearchNameLists : TagsSearch("names", Some(SearchNames_(l)))

TagsPattern == \E p \in SearchPatterns : TagsSearch("pattern", Some(SearchPattern(p)))

\* query_api returns r from the stage named, the stages passed having
\* succeeded: the call ends.
QueryApiReturn(passed, stage, r) ==
  /\ stages' = stages \o passed \o <<[stage |-> stage, ok |-> IsOk(r)]>>
  /\ ret' = r
  /\ result' = Return(call, r)
  /\ pc' = "done"

\* http_client.get(uri).await fails.
GetFails ==
  /\ pc = "get" /\ call.api \in {"posts", "tags"}
  /\ QueryApiReturn(<< >>, "get", Err("Request"))
  /\ UNCHANGED <<builderVars, call, qs_arg, qs, uri, requests, body, recordVars>>

\* http_client.get(uri).await answers with a response.
GetResponds ==
  /\ pc = "get" /\ call.api \in {"posts", "tags"}
  /\ pc' = "aggregate"
  /\ stages' = Append(stages, [stage |-> "get", ok |-> TRUE])
  /\ UNCHANGED <<builderVars, call, qs_arg, qs, uri, requests, body, ret, result,
                 recordVars>>

\* hyper::body::aggregate(res).await fails.
AggregateFails ==
  /\ pc = "aggregate" /\ call.api \in {"posts", "tags"}
  /\ QueryApiReturn(<< >>, "aggregate", Err("Request"))
  /\ UNCHANGED <<builderVars, call, qs_arg, qs, uri, requests, body, recordVars>>

\* hyper::body::aggregate(res).await yields the body, which is decoded.
AggregateResponds ==
  /\ pc = "aggregate" /\ call.api \in {"posts", "tags"}
  /\ \E i \in DOMAIN Bodies(call.api) :
       /\ body' = Some(Bodies(call.api)[i])
       /\ QueryApiReturn(<<[stage |-> "aggregate", ok |-> TRUE]>>, "decode",
                         from_reader(call.api, Bodies(call.api)[i]))
  /\ UNCHANGED <<builderVars, call, qs_arg, qs, uri, requests, recordVars>>

\* The posts builder and its request.
NextPosts ==
  \/ PostsLimit \/ PostsTag \/ PostsTags \/ PostsTagsRaw \/ PostsClearTags
  \/ PostsRating \/ PostsRandom
  \/ PostsSend
  \/ GetFails \/ GetResponds \/ AggregateFails \/ AggregateResponds
  \/ LibPostsSend
  \/ LibGetFails \/ LibGetResponds \/ LibAggregateFails \/ LibAggregateResponds

SpecPosts == Init /\ [][NextPosts]_vars

\* The tags builder and its requests.
NextTags ==
  \/ TagsLimit \/ TagsAfterId \/ TagsAscending \/ TagsOrderBy
  \/ TagsSend \/ TagsName \/ TagsNames \/ TagsPattern
  \/ GetFails \/ GetResponds \/ AggregateFails \/ AggregateResponds

SpecTags == Init /\ [][NextTags]_vars

\* The accessors, each called on a decoded record.
InitRecords ==
  /\ posts_builder = posts
  /\ tags_builder = Tags_new
  /\ client = [auth |-> None]
  /\ calls = << >>
  /\ pc = "builder"
  /\ call = NoCall
  /\ qs_arg = EmptyMap
  /\ qs = EmptyMap
  /\ uri = NoResult
  /\ requests = 0
  /\ body = None
  /\ ret = NoResult
  /\ result = NoResult
  /\ stages = << >>
  /\ a_post \in {SamplePost(r) : r \in RawRatings}
  /\ a_tag \in {SampleTag(t, a) : t \in RawTagTypes, a \in RawAmbiguous}
  /\ accessed = [name |-> "none", out |-> NotCalled]
  /\ blob \in Blobs
  /\ tasks = << >>

Access(name, out) ==
  /\ accessed.name = "none"
  /\ accessed' = [name |-> name, out |-> out]
  /\ UNCHANGED <<builderVars, callVars, a_post, a_tag, blob, tasks>>

PostRating == Access("rating", Post_rating(a_post))

TagTagType == Access("tag_type", Tag_tag_type(a_tag))

TagAmbigious == Access("ambigious", Tag_ambigious(a_tag))

AuthFromQueryString == Access("from_query_string", from_query_string(blob))

NextRecords == PostRating \/ TagTagType \/ TagAmbigious \/ AuthFromQueryString

SpecRecords == InitRecords /\ [][NextRecords]_vars

(***************************************************************************)
(* Concurrent calls.  Each task is one future: a builder moved into its    *)
(* sending method and the locals of query_api; the client is borrowed by   *)
(* all of them.  A step of a task runs from one await to the next.         *)
(***************************************************************************)
Tasks == 1..MaxTasks
TasksOf(c) == 1..(IF IsSome(c.auth) THEN MaxAuthTasks ELSE MaxTasks)

\* The builders the tasks are given, each with its sending method.
PreparedRequests ==
  << [call |-> [api |-> "tags", mode |-> "send", search |-> None],
      builder |-> Tags_new],
     [call |-> [api |-> "tags", mode |-> "send", search |-> None],
      builder |-> Tags_limit(Tags_new, 5)],
     [call |-> [api |-> "posts", mode |-> "send", search |-> None],
      builder |-> Posts_tags_raw(posts, T_raw_bad)] >>

\* The bodies the tasks are answered with: one that is no JSON and one with
\* an item.
TaskBodies(api) ==
  IF api = "posts" THEN <<PostBodies[1], PostBodies[3]>> ELSE <<TagBodies[1], TagBodies[4]>>

\* The requests run on client c.  Credentials add two entries to every map,
\* and with them the orders of a map of four entries are twenty-four: the
\* calls run with credentials are the first and the last.
RequestsOf(c) ==
  IF IsSome(c.auth) THEN {1, Len(PreparedRequests)} ELSE DOMAIN PreparedRequests

NewTask(request) ==
  [pc |-> "builder", call |-> request.call, builder |-> request.builder,
   qs_arg |-> EmptyMap, qs |-> EmptyMap, uri |-> NoResult, requests |-> 0,
   body |-> None, ret |-> NoResult, result |-> NoResult, stages |-> << >>]

InitCalls ==
  /\ posts_builder = posts
  /\ tags_builder = Tags_new
  /\ client \in Clients
  /\ calls = << >>
  /\ pc = "builder"
  /\ call = NoCall
  /\ qs_arg = EmptyMap
  /\ qs = EmptyMap
  /\ uri = NoResult
  /\ requests = 0
  /\ body = None
  /\ ret = NoResult
  /\ result = NoResult
  /\ stages = << >>
  /\ a_post = SamplePost(<<"s">>)
  /\ a_tag = SampleTag(<<"t","a","g">>, <<"0">>)
  /\ accessed = [name |-> "none", out |-> NotCalled]
  /\ blob = << >>
  /\ \E choice \in [TasksOf(client) -> RequestsOf(client)] :
       tasks = [t \in TasksOf(client) |-> NewTask(PreparedRequests[choice[t]])]

\* The parameters task t hands to query_api, from the builder of another task.
Task_qs_arg_of_first(ts, t) ==
  IF ts[1].call.api = "posts" THEN Posts_send_qs(ts[1].builder)
  ELSE Tags_search_qs(ts[1].builder, ts[1].call.search)

\* The parameters task t hands to query_api: compiled from its own builder.
Task_qs_arg(ts, t) ==
  IF ts[t].call.api = "posts" THEN Posts_send_qs(ts[t].builder)
  ELSE Tags_search_qs(ts[t].builder, ts[t].call.search)

TaskStep(t, new) ==
  /\ tasks' = [tasks EXCEPT ![t] = new]
  /\ UNCHANGED <<builderVars, callVars, a_post, a_tag, accessed, blob>>

\* The sending method and query_api up to its first await.
TaskStart(t) ==
  /\ t \in DOMAIN tasks
  /\ tasks[t].pc = "builder"
  /\ \E order \in HashOrders(QueryApi_auth(client, Task_qs_arg(tasks, t))) :
       LET a == Task_qs_arg(tasks, t)
           q == QueryApi_auth(client, a)
           u == QueryApi_uri(q, order)
           started == [tasks[t] EXCEPT !.qs_arg = a, !.qs = q, !.uri = u,
                                       !.stages = <<[stage |-> "uri", ok |-> IsOk(u)]>>]
       IN  IF IsOk(u)
           THEN TaskStep(t, [started EXCEPT !.pc = "get", !.requests = @ + 1])
           ELSE TaskStep(t, [started EXCEPT !.pc = "done", !.ret = Err("UriParse"),
                                           !.result = Return(tasks[t].call, Err("UriParse"))])

\* query_api of task t returns r from the stage named.
TaskReturn(t, passed, stage, r) ==
  [tasks[t] EXCEPT !.stages = @ \o passed \o <<[stage |-> stage, ok |-> IsOk(r)]>>,
                   !.ret = r, !.result = Return(tasks[t].call, r), !.pc = "done"]

\* http_client.get(uri).await fails, and the request is issued once more.
TaskGetFails_retry(t) ==
  /\ t \in DOMAIN tasks
  /\ tasks[t].pc = "get"
  /\ IF tasks[t].requests < 2
     THEN TaskStep(t, [tasks[t] EXCEPT !.requests = @ + 1])
     ELSE TaskStep(t, TaskReturn(t, << >>, "get", Err("Request")))

\* http_client.get(uri).await fails.
TaskGetFails(t) ==
  /\ t \in DOMAIN tasks
  /\ tasks[t].pc = "get"
  /\ TaskStep(t, TaskReturn(t, << >>, "get", Err("Request")))

\* http_client.get(uri).await answers with a response.
TaskGetResponds(t) ==
  /\ t \in DOMAIN tasks
  /\ tasks[t].pc = "get"
  /\ TaskStep(t, [tasks[t] EXCEPT !.pc = "aggregate",
                                  !.stages = Append(@, [stage |-> "get", ok |-> TRUE])])

\* hyper::body::aggregate(res).await fails.
TaskAggregateFails(t) ==
  /\ t \in DOMAIN tasks
  /\ tasks[t].pc = "aggregate"
  /\ TaskStep(t, TaskReturn(t, << >>, "aggregate", Err("Request")))

\* hyper::body::aggregate(res).await yields the body, which is decoded.
TaskAggregateResponds(t) ==
  /\ t \in DOMAIN tasks
  /\ tasks[t].pc = "aggregate"
  /\ \E i \in DOMAIN TaskBodies(tasks[t].call.api) :
       LET b == TaskBodies(tasks[t].call.api)[i]
           r == TaskReturn(t, <<[stage |-> "aggregate", ok |-> TRUE]>>, "decode",
                           from_reader(tasks[t].call.api, b))
       IN  TaskStep(t, [r EXCEPT !.body = Some(b)])

\* One step of task t.
TaskNext(t) ==
  \/ TaskStart(t)
  \/ TaskGetFails(t) \/ TaskGetResponds(t)
  \/ TaskAggregateFails(t) \/ TaskAggregateResponds(t)

NextCalls == \E t \in Tasks : TaskNext(t)

\* The two awaits of query_api.
TaskGetEnds(t) == TaskGetFails(t) \/ TaskGetResponds(t)
TaskAggregateEnds(t) == TaskAggregateFails(t) \/ TaskAggregateResponds(t)

\* The executor polls a future that awaits until the future is ready, and the
\* transport ends every await with a response or with an error.
SpecCalls ==
  /\ InitCalls
  /\ [][NextCalls]_vars
  /\ \A t \in Tasks : WF_vars(TaskGetEnds(t)) /\ WF_vars(TaskAggregateEnds(t))

(***************************************************************************)
(* What the claims say, stated from the calls made and independently of    *)
(* the operators above.                                                    *)
(***************************************************************************)
\* Index of the last call of the log whose method is in ops, or 0.
LastCall(log, ops) ==
  IF \E i \in DOMAIN log : log[i].op \in ops
  THEN CHOOSE i \in DOMAIN log :
         log[i].op \in ops /\ \A j \in (i + 1)..Len(log) : log[j].op \notin ops
  ELSE 0

\* The tags passed to tag and tags from call i on, in order.
RECURSIVE TagsAdded(_, _)
TagsAdded(log, i) ==
  IF i > Len(log) THEN << >>
  ELSE (IF log[i].op = "tag" THEN <<log[i].str>>
        ELSE IF log[i].op = "tags" THEN log[i].list ELSE << >>) \o TagsAdded(log, i + 1)

ExpectedTags(log) == TagsAdded(log, LastCall(log, {"clear_tags"}) + 1)

ExpectedRaw(log) ==
  LET k == LastCall(log, {"clear_tags", "tags_raw"})
  IN  IF k = 0 \/ log[k].op = "clear_tags" THEN << >> ELSE log[k].str

ExpectedLimit(log, default) ==
  LET k == LastCall(log, {"limit"}) IN IF k = 0 THEN default ELSE log[k].num

ExpectedRating(log) ==
  LET k == LastCall(log, {"rating"}) IN IF k = 0 THEN None ELSE Some(log[k].variant)

ExpectedRandom(log) ==
  LET k == LastCall(log, {"random"}) IN IF k = 0 THEN FALSE ELSE log[k].flag

\* The decimal numeral of a number below 1000.
Decimal(n) ==
  IF n < 10 THEN <<DigitChars[n + 1]>>
  ELSE IF n < 100 THEN <<DigitChars[(n \div 10) + 1], DigitChars[(n % 10) + 1]>>
  ELSE <<DigitChars[(n \div 100) + 1], DigitChars[((n \div 10) % 10) + 1],
         DigitChars[(n % 10) + 1]>>

\* The strings of a list with sep between neighbours.
RECURSIVE Joined(_, _)
Joined(list, sep) ==
  IF Len(list) = 0 THEN << >>
  ELSE IF Len(list) = 1 THEN list[1]
  ELSE Joined(SubSeq(list, 1, Len(list) - 1), sep) \o sep \o list[Len(list)]

LowercasedRatingName(r) ==
  CASE r = "Safe" -> <<"s","a","f","e">>
    [] r = "Questionable" -> <<"q","u","e","s","t","i","o","n","a","b","l","e">>
    [] r = "Explicit" -> <<"e","x","p","l","i","c","i","t">>

\* The tags expression in the claimed order, with separator sep.
TagsExpression(rating, random, tags, raw, sep) ==
  (IF IsSome(rating)
   THEN <<"r","a","t","i","n","g",":">> \o LowercasedRatingName(Unwrap(rating)) \o sep
   ELSE << >>)
  \o (IF random THEN <<"s","o","r","t",":","r","a","n","d","o","m">> \o sep ELSE << >>)
  \o Joined(tags, sep)
  \o (IF raw # << >> THEN sep \o raw ELSE << >>)

ExpectedTagsExpression(log, sep) ==
  TagsExpression(ExpectedRating(log), ExpectedRandom(log), ExpectedTags(log),
                 ExpectedRaw(log), sep)

\* The request of the given api has been handed to query_api.
Sent(api) == pc # "builder" /\ call.api = api
\* A posts request has been sent, by the send of api.rs or by that of lib.rs.
SentPosts == Sent("posts") \/ Sent("lib_posts")

(***************************************************************************)
(* C1.  Original statement: the `tags` expression of a posts request is    *)
(* rating, sort:random, the tag list and the raw suffix in that order,     *)
(* each present part separated by a single space.                          *)
(***************************************************************************)
C1_Original ==
  SentPosts => qs_arg[K_tags] = ExpectedTagsExpression(calls, <<" ">>)

\* C1, amended: the `tags` expression of a posts request is
\* `rating:<lowercased name>` and a separator if a rating was set,
\* `sort:random` and a separator if randomize is on, the tag list joined by
\* the separator, and a separator and the raw suffix if that is non-empty,
\* in this order whatever the order of the builder calls; the separator is
\* a single `+`.
C1_TagsExpression ==
  SentPosts => qs_arg[K_tags] = ExpectedTagsExpression(calls, <<"+">>)

\* tags [hatsune_miku, solo], rating Safe and raw suffix rating:s, set in
\* another order than the compiled one, sent as
\* rating:safe+hatsune_miku+solo+rating:s
C1_Witness ==
  /\ Sent("posts")
  /\ Len(calls) = 3
  /\ calls[1].op = "tags_raw" /\ calls[1].str = T_raw_rating
  /\ calls[2].op = "tags" /\ calls[2].list = <<T_hatsune_miku, T_solo>>
  /\ calls[3].op = "rating" /\ calls[3].variant = "Safe"
  /\ qs_arg[K_tags] =
       <<"r","a","t","i","n","g",":","s","a","f","e","+","h","a","t","s","u","n","e","_",
         "m","i","k","u","+","s","o","l","o","+","r","a","t","i","n","g",":","s">>

(***************************************************************************)
(* C2.  The tag list is the tags added since the last clear_tags, in       *)
(* order and with duplicates, and the raw suffix is the argument of the    *)
(* last tags_raw since the last clear_tags, or empty; after clear_tags and *)
(* tags(l) the request carries exactly the tags of l.                      *)
(***************************************************************************)
C2_TagsSinceClear ==
  /\ posts_builder.tags = ExpectedTags(calls)
  /\ posts_builder.tags_raw = ExpectedRaw(calls)
  /\ \A i \in 1..(Len(calls) - 1) :
       /\ calls[i].op = "clear_tags" /\ calls[i + 1].op = "tags" /\ i + 1 = Len(calls)
       /\ SentPosts
       => qs_arg[K_tags] =
            TagsExpression(ExpectedRating(calls), ExpectedRandom(calls),
                           calls[i + 1].list, << >>, <<"+">>)

\* A raw suffix was set, the tags were cleared, two tags were added and the
\* request was sent with these two tags alone.
C2_Witness ==
  /\ Sent("posts")
  /\ Len(calls) = 3
  /\ calls[1].op = "tags_raw"
  /\ calls[2].op = "clear_tags"
  /\ calls[3].op = "tags" /\ calls[3].list = <<T_hatsune_miku, T_solo>>
  /\ posts_builder.tags = <<T_hatsune_miku, T_solo>>
  /\ posts_builder.tags_raw = << >>
  /\ qs_arg[K_tags] = <<"h","a","t","s","u","n","e","_","m","i","k","u","+","s","o","l","o">>

(***************************************************************************)
(* C3.  Original statement: a posts request carries exactly s, limit and   *)
(* tags; s is post, limit is the last limit set or 100, and with no tags,  *)
(* no rating and no raw suffix tags is the empty string and the request is *)
(* still made.                                                             *)
(***************************************************************************)
PostsParameters ==
  /\ DOMAIN qs_arg = {K_s, K_limit, K_tags}
  /\ qs_arg[K_s] = <<"p","o","s","t">>
  /\ qs_arg[K_limit] = Decimal(ExpectedLimit(calls, 100))

C3_Original ==
  Sent("posts") =>
    /\ PostsParameters
    /\ (ExpectedTags(calls) = << >> /\ ExpectedRating(calls) = None
        /\ ExpectedRaw(calls) = << >>)
       => (qs_arg[K_tags] = << >> /\ IsOk(uri) /\ requests = 1)

\* C3, amended: a posts request carries exactly s, limit and tags; s is
\* post, limit is the last limit set or 100, and with no tags, no rating, no
\* raw suffix and randomize off tags is the empty string and the request is
\* still made.
\* The send kept in lib.rs carries s=post in the fixed part of its Uri and
\* limit and tags in its map.
C3_PostsParameters ==
  /\ Sent("posts") => PostsParameters
  /\ Sent("lib_posts") =>
       /\ DOMAIN qs_arg = {K_limit, K_tags}
       /\ qs_arg[K_limit] = Decimal(ExpectedLimit(calls, 100))
       /\ IsOk(uri) =>
            SubSeq(Unwrap(uri.ok), 1, Len(API_BASE) + 8)
              = API_BASE \o <<"&","s","=","p","o","s","t","&">>
  /\ (SentPosts
      /\ ExpectedTags(calls) = << >> /\ ExpectedRating(calls) = None
      /\ ExpectedRaw(calls) = << >> /\ ~ExpectedRandom(calls))
     => (qs_arg[K_tags] = << >> /\ IsOk(uri) /\ requests = 1)

\* A request sent from a builder on which nothing was set: limit=100 and an
\* empty tags parameter, and the request was issued.
C3_Witness ==
  /\ Sent("posts")
  /\ calls = << >>
  /\ qs_arg[K_limit] = <<"1","0","0">>
  /\ qs_arg[K_tags] = << >>
  /\ requests = 1

(***************************************************************************)
(* C4.  The limit of a tags request is the last limit set, in every search *)
(* mode; with none set it is 1 for name, the number of names for names     *)
(* (an empty list and repeated names included), and 100 for pattern and    *)
(* for send.                                                               *)
(***************************************************************************)
DefaultTagsLimit(c) ==
  CASE c.mode = "name" -> 1
    [] c.mode = "names" -> Len(Unwrap(c.search).list)
    [] OTHER -> 100

C4_TagsLimit ==
  Sent("tags") => qs_arg[K_limit] = Decimal(ExpectedLimit(calls, DefaultTagsLimit(call)))

\* names with three names, one of them twice, and no limit set: limit=3.
C4_Witness ==
  /\ Sent("tags")
  /\ call.mode = "names"
  /\ Unwrap(call.search).list = <<T_hatsune_miku, T_solo, T_solo>>
  /\ LastCall(calls, {"limit"}) = 0
  /\ qs_arg[K_limit] = <<"3">>

(***************************************************************************)
(* C5.  A tags request carries exactly: s (tag) and limit; after_id,       *)
(* orderby and order each iff it was set; and the one mode parameter of    *)
(* the call (name, names joined in the given order, or name_pattern        *)
(* unchanged), none for send.                                              *)
(***************************************************************************)
Called(op) == LastCall(calls, {op}) # 0

ModeKeys(mode) ==
  CASE mode = "name" -> {K_name}
    [] mode = "names" -> {K_names}
    [] mode = "pattern" -> {K_name_pattern}
    [] OTHER -> {}

C5_TagsParameters ==
  Sent("tags") =>
    /\ DOMAIN qs_arg =
         {K_s, K_limit}
         \cup (IF Called("after_id") THEN {K_after_id} ELSE {})
         \cup (IF Called("order_by") THEN {K_orderby} ELSE {})
         \cup (IF Called("ascending") THEN {K_order} ELSE {})
         \cup ModeKeys(call.mode)
    /\ qs_arg[K_s] = <<"t","a","g">>
    /\ call.mode = "name" => qs_arg[K_name] = Unwrap(call.search).str
    /\ call.mode = "names" => qs_arg[K_names] = Joined(Unwrap(call.search).list, <<"+">>)
    /\ call.mode = "pattern" => qs_arg[K_name_pattern] = Unwrap(call.search).str
    /\ Cardinality(DOMAIN qs_arg \cap {K_name, K_names, K_name_pattern}) <= 1

\* A pattern search after after_id and order_by were set.
C5_Witness ==
  /\ Sent("tags")
  /\ call.mode = "pattern"
  /\ Called("after_id") /\ ~Called("order_by") /\ ~Called("ascending")
  /\ DOMAIN qs_arg = {K_s, K_limit, K_after_id, K_name_pattern}
  /\ qs_arg[K_name_pattern] = T_pattern

(***************************************************************************)
(* C6.  orderby is date, count or name for Date, Count or Name, and order  *)
(* is ASC for ascending and DESC for descending; each is sent exactly when *)
(* its own field was set, whatever the other.                              *)
(***************************************************************************)
OrderByName(variant) ==
  CASE variant = "Date" -> <<"d","a","t","e">>
    [] variant = "Count" -> <<"c","o","u","n","t">>
    [] variant = "Name" -> <<"n","a","m","e">>

C6_SortParameters ==
  Sent("tags") =>
    /\ K_orderby \in DOMAIN qs_arg <=> Called("order_by")
    /\ Called("order_by") =>
         qs_arg[K_orderby] = OrderByName(calls[LastCall(calls, {"order_by"})].variant)
    /\ K_order \in DOMAIN qs_arg <=> Called("ascending")
    /\ Called("ascending") =>
         qs_arg[K_order] = IF calls[LastCall(calls, {"ascending"})].flag
                           THEN <<"A","S","C">> ELSE <<"D","E","S","C">>

\* Only the direction was set, to descending: order=DESC and no orderby.
C6_Witness ==
  /\ Sent("tags")
  /\ Called("ascending") /\ ~Called("order_by")
  /\ ~calls[LastCall(calls, {"ascending"})].flag
  /\ qs_arg[K_order] = <<"D","E","S","C">>
  /\ K_orderby \notin DOMAIN qs_arg

(***************************************************************************)
(* C7.  name returns the first record of the decoded tags, whatever their  *)
(* number; None when there are none or the item array is absent; and the   *)
(* error of the search unchanged.                                          *)
(***************************************************************************)
C7_FirstTag ==
  (call.mode = "name" /\ pc = "done") =>
    /\ IsErr(ret) => result = ret
    /\ IsOk(ret) =>
         /\ IsOk(result)
         /\ LET items == Unwrap(ret.ok).tags
            IN  /\ items = << >> => Unwrap(result.ok) = None
                /\ items # << >> => Unwrap(result.ok) = Some(Head(items))
         /\ LET f == Unwrap(StructFields(Unwrap(body), TagQueryOrder))
            IN  /\ "tag" \notin DOMAIN f => Unwrap(result.ok) = None
                /\ ("tag" \in DOMAIN f /\ f["tag"].arr # << >>)
                     => Unwrap(Unwrap(result.ok))["tag"]
                          = Unwrap(StructFields(f["tag"].arr[1], TagOrder))["tag"].str

\* A limit of 5 was set, the service answered with two tags, and name
\* returned the first of them.
C7_Witness ==
  /\ call.mode = "name" /\ pc = "done"
  /\ qs_arg[K_limit] = <<"5">>
  /\ IsOk(ret) /\ Len(Unwrap(ret.ok).tags) = 2
  /\ IsOk(result) /\ IsSome(Unwrap(result.ok))
  /\ Unwrap(Unwrap(result.ok))["tag"] = T_hatsune_miku

(***************************************************************************)
(* C8.  query_api adds user_id (decimal) and api_key (as stored) when the  *)
(* client has credentials and neither when it is public, and leaves every  *)
(* parameter of the builder as it was.                                     *)
(***************************************************************************)
C8_Credentials ==
  pc # "builder" =>
    /\ \A k \in DOMAIN qs_arg : k \in DOMAIN qs /\ qs[k] = qs_arg[k]
    /\ IF IsSome(client.auth)
       THEN /\ DOMAIN qs = DOMAIN qs_arg \cup {K_user_id, K_api_key}
            /\ K_user_id \notin DOMAIN qs_arg /\ K_api_key \notin DOMAIN qs_arg
            /\ qs[K_user_id] = Decimal(Unwrap(client.auth).user)
            /\ qs[K_api_key] = Unwrap(client.auth).key
       ELSE DOMAIN qs = DOMAIN qs_arg

\* A name search sent by a client with credentials.
C8_Witness ==
  /\ Sent("tags") /\ call.mode = "name"
  /\ IsSome(client.auth)
  /\ qs[K_user_id] = <<"4","2">>
  /\ qs[K_api_key] = T_key
  /\ qs[K_name] = T_solo

(***************************************************************************)
(* C9.  The stages of a call run in the order uri, get, aggregate, decode; *)
(* none runs after one that failed; the call returns the error of the      *)
(* stage that failed (UriParse, Request, Request, JsonDeserialize) and Ok  *)
(* only when all four succeeded; a raw suffix with a space in it ends the  *)
(* call with UriParse before any request is made.                          *)
(***************************************************************************)
StageOrder == <<"uri", "get", "aggregate", "decode">>

ErrorOf(stage) ==
  CASE stage = "uri" -> "UriParse"
    [] stage = "get" -> "Request"
    [] stage = "aggregate" -> "Request"
    [] stage = "decode" -> "JsonDeserialize"

C9_ErrorStages ==
  /\ Len(stages) <= Len(StageOrder)
  /\ \A i \in DOMAIN stages : stages[i].stage = StageOrder[i]
  /\ \A i \in 1..(Len(stages) - 1) : stages[i].ok
  /\ requests = (IF stages # << >> /\ stages[1].ok THEN 1 ELSE 0)
  /\ pc # "done" => (result = NoResult /\ \A i \in DOMAIN stages : stages[i].ok)
  /\ pc = "done" =>
       /\ stages # << >>
       /\ IsOk(ret) # IsErr(ret)
       /\ IsErr(ret) => result = ret
       /\ IsOk(ret) <=> IsOk(result)
       /\ IF stages[Len(stages)].ok
          THEN Len(stages) = Len(StageOrder) /\ IsOk(ret)
          ELSE ret = Err(ErrorOf(stages[Len(stages)].stage))
  /\ (SentPosts /\ " " \in Range(ExpectedRaw(calls)))
     => (pc = "done" /\ ret = Err("UriParse") /\ requests = 0)

\* The raw suffix `hello! :D` was set and the call ended with UriParse and
\* no request.
C9_Witness ==
  /\ Sent("posts")
  /\ posts_builder.tags_raw = T_raw_bad
  /\ pc = "done"
  /\ result = Err("UriParse")
  /\ requests = 0

(***************************************************************************)
(* C10.  A raw rating other than s, q and e, and a raw tag type other than *)
(* the six known codes, make the accessor return a MappingDefect error.    *)
(***************************************************************************)
C10_MappingDefect ==
  /\ (accessed.name = "rating" /\ a_post["rating"] \notin {<<"s">>, <<"q">>, <<"e">>})
     => (accessed.out.kind = "return" /\ accessed.out.val = <<"MappingDefect">>)
  /\ (accessed.name = "tag_type"
      /\ a_tag["type"] \notin
           {<<"a","r","t","i","s","t">>, <<"c","h","a","r","a","c","t","e","r">>,
            <<"c","o","p","y","r","i","g","h","t">>,
            <<"d","e","p","r","e","c","a","t","e","d">>,
            <<"m","e","t","a","d","a","t","a">>, <<"t","a","g">>})
     => (accessed.out.kind = "return" /\ accessed.out.val = <<"MappingDefect">>)

(***************************************************************************)
(* C11.  Post::rating returns Safe for s, Questionable for q and Explicit  *)
(* for e, and the derived order of Rating is Safe < Questionable <         *)
(* Explicit: an earlier code of s, q, e gives a smaller Rating.            *)
(***************************************************************************)
RatingCodes == <<"s", "q", "e">>

C11_RatingMonotone ==
  /\ \A i \in 1..3 :
       (accessed.name = "rating" /\ a_post["rating"] = <<RatingCodes[i]>>)
         => accessed.out = Returned(Rating_variants[i])
  /\ Rating_lt("Safe", "Questionable") /\ Rating_lt("Questionable", "Explicit")
  /\ \A i, j \in 1..3 :
       i < j => LET a == Post_rating(SamplePost(<<RatingCodes[i]>>))
                    b == Post_rating(SamplePost(<<RatingCodes[j]>>))
                IN  /\ a.kind = "return" /\ b.kind = "return"
                    /\ Rating_lt(a.val[1], b.val[1])

C11_Witness ==
  /\ accessed.name = "rating"
  /\ a_post["rating"] = <<"q">>
  /\ accessed.out = Returned("Questionable")

(***************************************************************************)
(* C12.  Tag::tag_type returns, for each of the six known codes, the       *)
(* variant of the same name, and no two codes give the same variant.       *)
(***************************************************************************)
TagTypeCodes ==
  <<<<"a","r","t","i","s","t">>, <<"c","h","a","r","a","c","t","e","r">>,
    <<"c","o","p","y","r","i","g","h","t">>, <<"d","e","p","r","e","c","a","t","e","d">>,
    <<"m","e","t","a","d","a","t","a">>, <<"t","a","g">>>>

C12_TagTypeMapping ==
  /\ \A i \in 1..6 :
       (accessed.name = "tag_type" /\ a_tag["type"] = TagTypeCodes[i])
         => accessed.out = Returned(TagType_variants[i])
  /\ \A i, j \in 1..6 :
       i # j => Tag_tag_type(SampleTag(TagTypeCodes[i], <<"0">>))
                  # Tag_tag_type(SampleTag(TagTypeCodes[j], <<"0">>))

C12_Witness ==
  /\ accessed.name = "tag_type"
  /\ a_tag["type"] = <<"m","e","t","a","d","a","t","a">>
  /\ accessed.out = Returned("Metadata")

(***************************************************************************)
(* C13.  Tag::ambigious returns false exactly when the raw flag is the     *)
(* string 0, and true for every other string.                              *)
(***************************************************************************)
C13_AmbiguousFlag ==
  accessed.name = "ambigious"
    => /\ accessed.out.kind = "return"
       /\ (accessed.out.val[1] = FALSE) <=> (a_tag["ambiguous"] = <<"0">>)

C13_Witness ==
  /\ accessed.name = "ambigious"
  /\ a_tag["ambiguous"] = <<"0", "0">>
  /\ accessed.out = Returned(TRUE)

(***************************************************************************)
(* C14.  AuthDetails::from_query_string returns for every query string:    *)
(* an error when the marker &user_id= is absent, an error when the text    *)
(* after the first marker is not a decimal number, and otherwise Ok with   *)
(* that number and the text between byte 9 and the marker; it never        *)
(* panics, and ABCDEF&user_id=42 gives user 42 and key ABCDEF.             *)
(***************************************************************************)
AfterMarker(b) == SubSeq(b, Unwrap(find(b, S_user_id_marker)) + 10, Len(b))
AllDigits(b) == Len(b) > 0 /\ \A i \in 1..Len(b) : b[i] \in Range(DigitChars)
NoDigits(b) == \A i \in 1..Len(b) : b[i] \notin Range(DigitChars) \/ \E j \in 1..Len(b) : b[j] \notin Range(DigitChars) \cup {"+"}

C14_CredentialParse ==
  accessed.name = "from_query_string"
    => /\ accessed.out.kind = "return"
       /\ ~IsSome(find(blob, S_user_id_marker)) => IsErr(accessed.out.val[1])
       /\ (IsSome(find(blob, S_user_id_marker)) /\ NoDigits(AfterMarker(blob)))
            => IsErr(accessed.out.val[1])
       /\ (IsSome(find(blob, S_user_id_marker)) /\ AllDigits(AfterMarker(blob))
            /\ Len(AfterMarker(blob)) < 10)
            => /\ IsOk(accessed.out.val[1])
               /\ Unwrap(accessed.out.val[1].ok).user = DigitsValue(AfterMarker(blob))
       /\ blob = B_spec_example
            => accessed.out.val[1] = Ok([user |-> 42, key |-> <<"A","B","C","D","E","F">>])

(***************************************************************************)
(* C15.  A body with valid @attributes and no item array key (post, tag)   *)
(* decodes to an envelope with an empty item sequence; a body with a       *)
(* record that does not match the schema gives JsonDeserialize and no      *)
(* envelope, and a decoded envelope holds every record of the body: for    *)
(* the body of the call, and for every body of both endpoints (a fact of   *)
(* the decoder alone, evaluated in the initial state).                     *)
(***************************************************************************)
ItemKey(api) == IF api = "posts" THEN "post" ELSE "tag"
Items(api, envelope) == IF api = "posts" THEN envelope.posts ELSE envelope.tags
RecordMatches(api, j) ==
  IF api = "posts" THEN IsSome(Deserialize_Post(j)) ELSE IsSome(Deserialize_Tag(j))
\* The fields of the envelope a body gives, by name or by position.
EnvelopeFields(api, b) ==
  StructFields(b, IF api = "posts" THEN PostQueryOrder ELSE TagQueryOrder)
HasAttributes(api, b) ==
  /\ IsSome(EnvelopeFields(api, b))
  /\ "@attributes" \in DOMAIN Unwrap(EnvelopeFields(api, b))
  /\ IsSome(Deserialize_Attributes(Unwrap(EnvelopeFields(api, b))["@attributes"]))

Decoded(api, b, r) ==
  LET f == Unwrap(EnvelopeFields(api, b))
      key == ItemKey(api)
  IN  /\ (HasAttributes(api, b) /\ key \notin DOMAIN f)
           => (IsOk(r) /\ Items(api, Unwrap(r.ok)) = << >>)
      /\ (IsSome(EnvelopeFields(api, b)) /\ key \in DOMAIN f /\ IsArray(f[key])
           /\ \E i \in DOMAIN f[key].arr : ~RecordMatches(api, f[key].arr[i]))
           => (r = Err("JsonDeserialize") /\ r.ok = << >>)
      /\ (IsOk(r) /\ key \in DOMAIN f)
           => Len(Items(api, Unwrap(r.ok))) = Len(f[key].arr)

C15_DecodeAllOrNothing ==
  /\ (pc = "done" /\ IsSome(body) /\ call.api \in {"posts", "tags"})
       => Decoded(call.api, Unwrap(body), ret)
  /\ (pc = "done" /\ IsSome(body) /\ call.api = "lib_posts")
       => IF IsArray(Unwrap(body))
             /\ \A i \in DOMAIN Unwrap(body).arr : RecordMatches("posts", Unwrap(body).arr[i])
          THEN IsOk(ret) /\ Len(Unwrap(ret.ok)) = Len(Unwrap(body).arr)
          ELSE ret = Err("JsonDeserialize") /\ ret.ok = << >>
  /\ (pc = "builder" /\ calls = << >>)
       => \A api \in {"posts", "tags"} :
            \A i \in DOMAIN Bodies(api) :
              Decoded(api, Bodies(api)[i], from_reader(api, Bodies(api)[i]))

\* A posts call whose body had no `post` key returned an empty envelope.
C15_Witness ==
  /\ pc = "done"
  /\ call.api = "posts"
  /\ IsSome(body)
  /\ HasAttributes("posts", Unwrap(body))
  /\ "post" \notin DOMAIN Unwrap(EnvelopeFields("posts", Unwrap(body)))
  /\ IsOk(ret)
  /\ Unwrap(ret.ok).posts = << >>

(***************************************************************************)
(* C16.  The request Uri is API_BASE followed by every parameter of the    *)
(* map, encoded so that splitting its query at `&` and each piece at the   *)
(* first `=` gives back every parameter of the map once, with its value,   *)
(* and nothing else besides the parameters of API_BASE.                    *)
(***************************************************************************)
RECURSIVE Split(_, _)
Split(s, sep) ==
  LET i == FirstIn(s, {sep}, 1)
  IN  IF i = 0 THEN <<s>> ELSE <<SubSeq(s, 1, i - 1)>> \o Split(SubSeq(s, i + 1, Len(s)), sep)

PairOf(piece) ==
  LET i == FirstIn(piece, {"="}, 1)
  IN  IF i = 0 THEN [name |-> piece, value |-> << >>]
      ELSE [name |-> SubSeq(piece, 1, i - 1), value |-> SubSeq(piece, i + 1, Len(piece))]

QueryOf(u) == SubSeq(u, FirstIn(u, {"?"}, 1) + 1, Len(u))
PairsOf(u) == [i \in DOMAIN Split(QueryOf(u), "&") |-> PairOf(Split(QueryOf(u), "&")[i])]
BasePairs == PairsOf(API_BASE)

C16_QueryRoundTrip ==
  (pc # "builder" /\ call.api \in {"posts", "tags"} /\ IsOk(uri))
    => LET pairs == PairsOf(Unwrap(uri.ok))
       IN  /\ Len(pairs) = Len(BasePairs) + Cardinality(DOMAIN qs)
           /\ \A k \in DOMAIN qs :
                /\ Cardinality({i \in DOMAIN pairs : pairs[i].name = k}) = 1
                /\ \E i \in DOMAIN pairs : pairs[i] = [name |-> k, value |-> qs[k]]

(***************************************************************************)
(* C17.  Every call runs its stages in the order Uri, get, aggregate,      *)
(* decode and issues at most one request: none when the Uri does not       *)
(* parse, one otherwise, issued when the call starts and never again, also *)
(* after the request failed; a call that has issued its request eventually *)
(* returns an Ok or an Err, and a call that returned does nothing more.    *)
(***************************************************************************)
OneFetch(task) ==
  /\ task.requests <= 1
  /\ task.pc # "builder" => task.requests = (IF IsOk(task.uri) THEN 1 ELSE 0)
  /\ Len(task.stages) <= Len(StageOrder)
  /\ \A i \in DOMAIN task.stages : task.stages[i].stage = StageOrder[i]
  /\ \A i \in 1..(Len(task.stages) - 1) : task.stages[i].ok
  /\ task.pc = "done" <=> (IsOk(task.result) \/ IsErr(task.result))

C17_OneFetch ==
  /\ [](\A t \in DOMAIN tasks : OneFetch(tasks[t]))
  /\ [][/\ DOMAIN tasks' = DOMAIN tasks
        /\ \A t \in DOMAIN tasks :
             /\ tasks'[t].requests # tasks[t].requests => tasks[t].pc = "builder"
             /\ tasks[t].pc = "done" => tasks'[t] = tasks[t]]_vars
  /\ \A t \in Tasks : (t \in DOMAIN tasks /\ tasks[t].pc \in {"get", "aggregate"})
                         ~> (t \in DOMAIN tasks /\ tasks[t].pc = "done")

\* One call ended with its only request failed, another without a request.
C17_Witness ==
  /\ DOMAIN tasks = 1..2
  /\ tasks[1].pc = "done"
  /\ tasks[1].stages = <<[stage |-> "uri", ok |-> TRUE], [stage |-> "get", ok |-> FALSE]>>
  /\ tasks[1].result = Err("Request")
  /\ tasks[1].requests = 1
  /\ tasks[2].pc = "done"
  /\ tasks[2].result = Err("UriParse")
  /\ tasks[2].requests = 0

(***************************************************************************)
(* C18.  With several calls running on one client, in every interleaving   *)
(* the Uri of a call comes from its own builder and the credentials of the *)
(* client, its result from its own response, as for the call run alone; a  *)
(* step of one call changes nothing of another call, and no step changes   *)
(* the client or a builder.                                                *)
(***************************************************************************)
OwnParameters(task) ==
  IF task.call.api = "posts" THEN Posts_send_qs(task.builder)
  ELSE Tags_search_qs(task.builder, task.call.search)

\* The result of the call run alone on client c, its response being the one
\* the task has seen.
Alone(c, task) ==
  LET q == QueryApi_auth(c, OwnParameters(task))
      r == IF \A order \in HashOrders(q) : IsErr(QueryApi_uri(q, order)) THEN Err("UriParse")
           ELSE IF IsSome(task.body) THEN from_reader(task.call.api, Unwrap(task.body))
           ELSE Err("Request")
  IN  Return(task.call, r)

Isolated(t) ==
  tasks[t].pc # "builder"
    => /\ tasks[t].qs_arg = OwnParameters(tasks[t])
       /\ tasks[t].qs = QueryApi_auth(client, tasks[t].qs_arg)
       /\ \E order \in HashOrders(tasks[t].qs) : tasks[t].uri = QueryApi_uri(tasks[t].qs, order)
       /\ tasks[t].pc = "done" => tasks[t].result = Alone(client, tasks[t])

C18_Isolation ==
  /\ [](\A t \in DOMAIN tasks : Isolated(t))
  /\ [][/\ client' = client
        /\ DOMAIN tasks' = DOMAIN tasks
        /\ \A t \in DOMAIN tasks :
             /\ tasks'[t].builder = tasks[t].builder
             /\ tasks'[t].call = tasks[t].call
             /\ tasks[t].pc # "builder"
                  => /\ tasks'[t].qs_arg = tasks[t].qs_arg
                     /\ tasks'[t].qs = tasks[t].qs
                     /\ tasks'[t].uri = tasks[t].uri
        /\ \A t, u \in DOMAIN tasks :
             (t # u /\ tasks'[t] # tasks[t]) => tasks'[u] = tasks[u]]_vars

\* A call with the default limit awaits its body while a call started on the
\* same client from a builder with another limit has returned its tag.
C18_Witness ==
  /\ DOMAIN tasks = 1..2
  /\ tasks[1].builder = Tags_new
  /\ tasks[1].pc = "aggregate"
  /\ tasks[2].builder = Tags_limit(Tags_new, 5)
  /\ tasks[2].pc = "done"
  /\ tasks[1].qs[K_limit] = to_string(100)
  /\ tasks[2].qs[K_limit] = to_string(5)
  /\ tasks[1].uri # tasks[2].uri
  /\ IsOk(tasks[2].result)
  /\ Len(Unwrap(tasks[2].result.ok).tags) > 0

====
